---------------------------- MODULE Spec2Model ----------------------------
(***************************************************************************)
(* Model of the transcript gateway (src/app.py): one route,                *)
(* GET /transcript, guarded by require_api_key, which extracts a video id  *)
(* (get_video_id), resolves a transcript through the captioning backend    *)
(* (get_best_transcript, two blocking backend calls dispatched with        *)
(* asyncio.to_thread) and answers with the space-joined text.              *)
(*                                                                         *)
(* Python strings are sequences of one-character strings, so that split,   *)
(* strip, lower and join are computed character by character.              *)
(***************************************************************************)
EXTENDS Integers, Sequences, FiniteSets, TLC

VARIABLES
    pc,          \* pc[r]: position of request r's coroutine
    hdr,         \* hdr[r]: request.headers.get('Authorization'), None if absent
    url,         \* url[r]: request.args.get('url'), None if absent
    vid,         \* vid[r]: local video_id of get_transcript
    job,         \* job[r]: the asyncio.to_thread call request r awaits
    resp,        \* resp[r]: the HTTP response sent for r
    running,     \* the request whose coroutine holds the event-loop thread, 0 if none
    backendLog   \* backendLog[r]: the calls the backend received for r, with results

vars == <<pc, hdr, url, vid, job, resp, running, backendLog>>

---------------------------------------------------------------------------
(* Bounds of the model *)

NumReq == 2
MaxHdrPieces == 3
MaxUrlPieces == 4
MaxTracks == 3
MaxParts == 3

(* asyncio.to_thread runs on the loop's default ThreadPoolExecutor, which  *)
(* has min(32, cpu_count + 4) >= 5 worker threads.                         *)
MinPoolWorkers == 5

Reqs == 1..NumReq

---------------------------------------------------------------------------
(* Python values *)

None == <<"None">>

Str_youtu_be == <<"y","o","u","t","u",".","b","e">>
Str_watch_v == <<"w","a","t","c","h","?","v","=">>
Str_shorts == <<"/","s","h","o","r","t","s","/">>
Str_bearer == <<"b","e","a","r","e","r">>

API_KEY == <<"k","1">>

IsSpace(c) == c \in {" ", "\t", "\n"}

LowerChar(c) ==
    CASE c = "A" -> "a" [] c = "B" -> "b" [] c = "C" -> "c" [] c = "D" -> "d"
      [] c = "E" -> "e" [] c = "F" -> "f" [] c = "G" -> "g" [] c = "H" -> "h"
      [] c = "I" -> "i" [] c = "J" -> "j" [] c = "K" -> "k" [] c = "L" -> "l"
      [] c = "M" -> "m" [] c = "N" -> "n" [] c = "O" -> "o" [] c = "P" -> "p"
      [] c = "Q" -> "q" [] c = "R" -> "r" [] c = "S" -> "s" [] c = "T" -> "t"
      [] c = "U" -> "u" [] c = "V" -> "v" [] c = "W" -> "w" [] c = "X" -> "x"
      [] c = "Y" -> "y" [] c = "Z" -> "z" [] OTHER -> c

(* str.lower() *)
Lower(s) == [i \in 1..Len(s) |-> LowerChar(s[i])]

(* s[i-1:], Python's slice from the 1-based position i on *)
From(s, i) == SubSeq(s, i, Len(s))

(* sub occurs in s at position i *)
OccursAt(s, sub, i) ==
    /\ i >= 1
    /\ i + Len(sub) - 1 <= Len(s)
    /\ SubSeq(s, i, i + Len(sub) - 1) = sub

(* sub in s *)
Contains(s, sub) == \E i \in 1..Len(s) : OccursAt(s, sub, i)

(* the positions from i on where str.split(sep) cuts s: the occurrences of *)
(* sep found scanning from the left, each scan resuming after the last cut *)
RECURSIVE Cuts(_, _, _)
Cuts(s, sep, i) ==
    IF i + Len(sep) - 1 > Len(s) THEN {}
    ELSE IF OccursAt(s, sep, i) THEN {i} \cup Cuts(s, sep, i + Len(sep))
    ELSE Cuts(s, sep, i + 1)

(* the n-th smallest element of the set of numbers c *)
Nth(c, n) == CHOOSE i \in c : Cardinality({j \in c : j < i}) = n - 1

(* str.split(sep): the pieces of s between the cuts *)
Split(s, sep) ==
    [n \in 1..(Cardinality(Cuts(s, sep, 1)) + 1) |->
        SubSeq(s,
               IF n = 1 THEN 1 ELSE Nth(Cuts(s, sep, 1), n - 1) + Len(sep),
               IF n = Cardinality(Cuts(s, sep, 1)) + 1
               THEN Len(s)
               ELSE Nth(Cuts(s, sep, 1), n) - 1)]

(* str.strip(): s without its leading and trailing whitespace *)
Strip(s) ==
    LET inked == {i \in 1..Len(s) : ~IsSpace(s[i])}
    IN  IF inked = {} THEN <<>>
        ELSE SubSeq(s, CHOOSE i \in inked : \A j \in inked : i <= j,
                       CHOOSE i \in inked : \A j \in inked : j <= i)

(* the positions where a maximal whitespace-free run of s starts, the      *)
(* position where the run starting at i ends, and the start of the n-th run *)
WordStarts(s) ==
    {i \in 1..Len(s) : ~IsSpace(s[i]) /\ (i = 1 \/ IsSpace(s[i - 1]))}

WordEnd(s, i) ==
    CHOOSE j \in i..Len(s) :
        /\ \A k \in i..j : ~IsSpace(s[k])
        /\ j = Len(s) \/ IsSpace(s[j + 1])

NthWordStart(s, n) == Nth(WordStarts(s), n)

(* str.split() without a separator: the maximal whitespace-free runs *)
SplitWs(s) ==
    [n \in 1..Cardinality(WordStarts(s)) |->
        SubSeq(s, NthWordStart(s, n), WordEnd(s, NthWordStart(s, n)))]

(* ' '.join(texts) *)
RECURSIVE Join(_)
Join(texts) ==
    IF texts = <<>> THEN <<>>
    ELSE IF Len(texts) = 1 THEN texts[1]
    ELSE texts[1] \o <<" ">> \o Join(Tail(texts))

Last(s) == s[Len(s)]

---------------------------------------------------------------------------
(* Exceptions: a type name and a message.  except ValueError catches the   *)
(* type and its subclasses.                                                 *)

ValueErrorTypes == {"ValueError", "JSONDecodeError", "InvalidURL"}

Exc(type, msg) == [type |-> type, msg |-> msg]

IsValueError(e) == e.type \in ValueErrorTypes

(* the result of a call: a value, an exception, or not there yet *)
Ok(v) == [ok |-> TRUE, value |-> v]
Raise(e) == [ok |-> FALSE, exc |-> e]
Pending == [pending |-> TRUE]

---------------------------------------------------------------------------
(* require_api_key: the decorator's check of the Authorization header.     *)
(* "missing" and "invalid" are the two 401 answers, "ok" calls f.           *)

(* a variant that checks the scheme and not the token *)
AuthCheckSchemeOnly(h) ==
    IF h = None \/ h = <<>>
    THEN "missing"
    ELSE IF \E parts \in {SplitWs(h)} :
                /\ Len(parts) = 2
                /\ Lower(parts[1]) = Str_bearer
         THEN "ok"
         ELSE "invalid"

AuthCheck(h) ==
    IF h = None \/ h = <<>>
    THEN "missing"
    ELSE IF \E parts \in {SplitWs(h)} :
                /\ Len(parts) = 2                   \* scheme, token = parts
                /\ Lower(parts[1]) = Str_bearer
                /\ parts[2] = API_KEY
         THEN "ok"
         ELSE "invalid"

(* get_video_id *)
get_video_id(u0) ==
    LET u == Strip(u0)
    IN  IF Contains(u, Str_youtu_be)
        THEN Ok(Split(Last(Split(u, <<"/">>)), <<"?">>)[1])
        ELSE IF Contains(u, Str_watch_v)
        THEN Ok(Split(Split(u, Str_watch_v)[2], <<"&">>)[1])
        ELSE IF Contains(u, Str_shorts)
        THEN Ok(Split(Split(u, Str_shorts)[2], <<"?">>)[1])
        ELSE Raise(Exc("ValueError", "Could not extract video ID from URL"))

---------------------------------------------------------------------------
(* get_best_transcript: the selection among the tracks the backend listed. *)
(* A track is [language_code, is_generated]; tracks is the listing in the  *)
(* backend's order.                                                        *)

preferred_languages == <<"en", "es", "fr", "de", "ar">>

Track(lang, gen) == [language_code |-> lang, is_generated |-> gen]

Range(s) == {s[i] : i \in 1..Len(s)}

IsGenerated(t) == t.is_generated
IsManual(t) == ~t.is_generated

(* the language codes appended to generated_transcripts / manual_transcripts *)
CodesOf(ts) == [i \in 1..Len(ts) |-> ts[i].language_code]
generated_transcripts(tracks) == CodesOf(SelectSeq(tracks, IsGenerated))
manual_transcripts(tracks) == CodesOf(SelectSeq(tracks, IsManual))

(* for lang in preferred_languages: if lang in codes: ... ; from position i *)
(* on: the first preferred language found in codes, NoLang if the loop ends *)
NoLang == ""

RECURSIVE ScanPreferred(_, _)
ScanPreferred(i, codes) ==
    IF i > Len(preferred_languages) THEN NoLang
    ELSE IF preferred_languages[i] \in Range(codes) THEN preferred_languages[i]
    ELSE ScanPreferred(i + 1, codes)

Pick(gen, lang, tr) ==
    [found |-> TRUE, is_generated |-> gen, language_code |-> lang, translate |-> tr]

NotFound == [found |-> FALSE]

(* a variant that scans the generated tracks before the manual ones *)
select_generated_first(tracks) ==
    LET manual == manual_transcripts(tracks)
        generated == generated_transcripts(tracks)
        m == ScanPreferred(1, manual)
        g == ScanPreferred(1, generated)
    IN  IF g # NoLang THEN Pick(TRUE, g, g # "en")
        ELSE IF m # NoLang THEN Pick(FALSE, m, m # "en")
        ELSE IF generated # <<>> THEN Pick(TRUE, generated[1], TRUE)
        ELSE IF manual # <<>> THEN Pick(FALSE, manual[1], TRUE)
        ELSE NotFound

(* a variant that fetches a preferred non-English track untranslated *)
select_without_translation(tracks) ==
    LET manual == manual_transcripts(tracks)
        generated == generated_transcripts(tracks)
        m == ScanPreferred(1, manual)
        g == ScanPreferred(1, generated)
    IN  IF m # NoLang THEN Pick(FALSE, m, FALSE)
        ELSE IF g # NoLang THEN Pick(TRUE, g, g # "en")
        ELSE IF generated # <<>> THEN Pick(TRUE, generated[1], TRUE)
        ELSE IF manual # <<>> THEN Pick(FALSE, manual[1], TRUE)
        ELSE NotFound

(* lines 125-150: which track is looked up, and whether translate('en') is *)
(* applied to it before the fetch                                          *)
select_transcript(tracks) ==
    LET manual == manual_transcripts(tracks)
        generated == generated_transcripts(tracks)
        m == ScanPreferred(1, manual)
        g == ScanPreferred(1, generated)
    IN  IF m # NoLang THEN Pick(FALSE, m, m # "en")
        ELSE IF g # NoLang THEN Pick(TRUE, g, g # "en")
        ELSE IF generated # <<>> THEN Pick(TRUE, generated[1], TRUE)
        ELSE IF manual # <<>> THEN Pick(FALSE, manual[1], TRUE)
        ELSE NotFound

(* transcript_list.find_generated_transcript([lang]) /                     *)
(* find_manually_created_transcript([lang]): the listed track of that kind *)
(* and language                                                            *)
find_transcript(tracks, gen, lang) ==
    CHOOSE t \in Range(tracks) : t.is_generated = gen /\ t.language_code = lang

(* a transcript handle: the track and the language it is translated to *)
Handle(t) == [track |-> t, translation |-> "none"]
translate(h, lang) == [h EXCEPT !.translation = lang]

---------------------------------------------------------------------------
(* get_transcript: the response shaping *)

HasText(p) == "text" \in DOMAIN p

TextsOf(parts) == [i \in 1..Len(parts) |-> parts[i].text]

(* a variant that loses the last part *)
full_transcript_truncated(parts) ==
    Join(TextsOf(SubSeq(parts, 1, Len(parts) - 1)))

(* line 186: ' '.join(part['text'] for part in transcript_parts) *)
full_transcript(parts) == Join(TextsOf(parts))

ErrorBody(status, msg) == [status |-> status, error |-> msg]

(* lines 197-211: except ValueError -> 400, except Exception -> 500 *)
error_response(e) ==
    IF IsValueError(e) THEN ErrorBody(400, e.msg) ELSE ErrorBody(500, e.msg)

(* lines 186-196, with the KeyError of a part without text *)
transcript_response(parts) ==
    IF \E i \in 1..Len(parts) : ~HasText(parts[i])
    THEN error_response(Exc("KeyError", "'text'"))
    ELSE [status |-> 200, transcript |-> full_transcript(parts)]

---------------------------------------------------------------------------
(* The server: one coroutine per request on one event-loop thread, and the *)
(* worker threads asyncio.to_thread dispatches the backend calls to.       *)

NoJob == [st |-> "none"]
NoResp == [status |-> 0]

ListCall(v) == [op |-> "list", video_id |-> v]
FetchCall(h) == [op |-> "fetch", transcript |-> h]

Init ==
    /\ pc = [r \in Reqs |-> "idle"]
    /\ hdr = [r \in Reqs |-> None]
    /\ url = [r \in Reqs |-> None]
    /\ vid = [r \in Reqs |-> None]
    /\ job = [r \in Reqs |-> NoJob]
    /\ resp = [r \in Reqs |-> NoResp]
    /\ running = 0
    /\ backendLog = [r \in Reqs |-> <<>>]

(* the coroutine of r returns a response: the loop thread is free again *)
Respond(r, response) ==
    /\ pc' = [pc EXCEPT ![r] = "done"]
    /\ resp' = [resp EXCEPT ![r] = response]
    /\ job' = [job EXCEPT ![r] = NoJob]
    /\ running' = 0

(* a variant that calls the backend on the event-loop thread and blocks it *)
(* until the call returns                                                   *)
blocking_call(r, call) ==
    /\ job' = [job EXCEPT ![r] = [st |-> "queued", call |-> call]]
    /\ running' = r

(* await asyncio.to_thread(call): the call is handed to the thread pool     *)
(* and the coroutine is suspended, which returns control to the event loop *)
to_thread(r, call) ==
    /\ job' = [job EXCEPT ![r] = [st |-> "queued", call |-> call]]
    /\ running' = 0

(* a variant that calls the backend again when a backend call failed *)
retry_on_error(r, e) ==
    IF job[r].st = "done" /\ ~job[r].result.ok
    THEN /\ to_thread(r, job[r].call)
         /\ UNCHANGED <<pc, resp>>
    ELSE Respond(r, error_response(e))

(* lines 152-159 and 197-211: the exception is logged, re-raised by        *)
(* get_best_transcript and answered by get_transcript                      *)
reraise(r, e) == Respond(r, error_response(e))

(* the server accepts request r and schedules its coroutine *)
Accept(r, headers, urls) ==
    /\ running = 0
    /\ pc[r] = "idle"
    /\ \E h \in headers, u \in urls :
         /\ hdr' = [hdr EXCEPT ![r] = h]
         /\ url' = [url EXCEPT ![r] = u]
    /\ pc' = [pc EXCEPT ![r] = "ready"]
    /\ UNCHANGED <<vid, job, resp, running, backendLog>>

(* lines 62-84: require_api_key's wrapper *)
decorated_function(r) ==
    /\ running = 0
    /\ pc[r] = "ready"
    /\ \E a \in {AuthCheck(hdr[r])} :
           IF a = "missing"
           THEN Respond(r, ErrorBody(401, "No authorization header"))
           ELSE IF a = "invalid"
           THEN Respond(r, ErrorBody(401, "Invalid authorization"))
           ELSE /\ pc' = [pc EXCEPT ![r] = "get_transcript"]
                /\ running' = r
                /\ UNCHANGED <<job, resp>>
    /\ UNCHANGED <<hdr, url, vid, backendLog>>

(* lines 164-182: the url parameter and the video id *)
get_transcript(r) ==
    /\ running = r
    /\ pc[r] = "get_transcript"
    /\ IF url[r] = None \/ url[r] = <<>>
       THEN /\ Respond(r, ErrorBody(400, "YouTube URL is required"))
            /\ UNCHANGED vid
       ELSE \E v \in {get_video_id(url[r])} :
                IF v.ok
                THEN /\ vid' = [vid EXCEPT ![r] = v.value]
                     /\ pc' = [pc EXCEPT ![r] = "get_best_transcript"]
                     /\ UNCHANGED <<job, resp, running>>
                ELSE /\ Respond(r, error_response(v.exc))
                     /\ UNCHANGED vid
    /\ UNCHANGED <<hdr, url, backendLog>>

(* lines 104-110: get_best_transcript lists the tracks *)
get_best_transcript(r) ==
    /\ running = r
    /\ pc[r] = "get_best_transcript"
    /\ to_thread(r, ListCall(vid[r]))
    /\ pc' = [pc EXCEPT ![r] = "await_list"]
    /\ UNCHANGED <<hdr, url, vid, resp, backendLog>>

(* a worker thread of the pool starts the queued call: the backend is      *)
(* contacted                                                               *)
worker_start(r) ==
    /\ job[r].st = "queued"
    /\ Cardinality({q \in Reqs : job[q].st = "running"}) < MinPoolWorkers
    /\ job' = [job EXCEPT ![r].st = "running"]
    /\ backendLog' = [backendLog EXCEPT
                        ![r] = Append(@, [call |-> job[r].call, result |-> Pending])]
    /\ UNCHANGED <<pc, hdr, url, vid, resp, running>>

(* the backend call of r returns or raises in its worker thread *)
backend_returns(r, op, outcomes) ==
    /\ job[r].st = "running"
    /\ job[r].call.op = op
    /\ \E res \in outcomes :
         /\ job' = [job EXCEPT ![r] = [st |-> "done", call |-> job[r].call, result |-> res]]
         /\ backendLog' = [backendLog EXCEPT ![r][Len(backendLog[r])].result = res]
    /\ UNCHANGED <<pc, hdr, url, vid, resp, running>>

(* lines 112-150: the coroutine resumes with the listing, selects a track  *)
(* and fetches it                                                          *)
resume_with_list(r) ==
    /\ running = 0
    /\ pc[r] = "await_list"
    /\ job[r].st = "done"
    /\ LET res == job[r].result
       IN  IF ~res.ok
           THEN reraise(r, res.exc)
           ELSE LET sel == select_transcript(res.value)
                IN  IF ~sel.found
                    THEN reraise(r, Exc("Exception", "No available transcripts found"))
                    ELSE LET h == Handle(find_transcript(res.value, sel.is_generated,
                                                         sel.language_code))
                         IN  \/ /\ to_thread(r, FetchCall(IF sel.translate
                                                          THEN translate(h, "en")
                                                          ELSE h))
                                /\ pc' = [pc EXCEPT ![r] = "await_fetch"]
                                /\ UNCHANGED resp
                             \/ /\ sel.translate    \* translate('en') raises
                                /\ reraise(r, Exc("NotTranslatable", "not translatable"))
    /\ UNCHANGED <<hdr, url, vid, backendLog>>

(* lines 186-196: the coroutine resumes with the fetched parts *)
resume_with_parts(r) ==
    /\ running = 0
    /\ pc[r] = "await_fetch"
    /\ job[r].st = "done"
    /\ LET res == job[r].result
       IN  IF ~res.ok
           THEN reraise(r, res.exc)
           ELSE Respond(r, transcript_response(res.value))
    /\ UNCHANGED <<hdr, url, vid, backendLog>>

---------------------------------------------------------------------------
(* The inputs: what clients send and what the backend answers *)

(* the strings made of at most n of the fragments *)
RECURSIVE Concats(_, _)
Concats(frags, n) ==
    IF n = 0 THEN {<<>>}
    ELSE LET shorter == Concats(frags, n - 1)
         IN  shorter \cup {p \o f : p \in shorter, f \in frags}

HdrFragments ==
    { <<"B","e","a","r","e","r">>, <<"B","a","s","i","c">>, <<" ">>,
      <<" ">> \o API_KEY, <<"k">> }

UrlFragments ==
    { <<"h","t","t","p","s",":","/","/">> \o Str_youtu_be \o <<"/">>,
      Str_youtu_be, Str_watch_v, Str_shorts,
      <<"/">>, <<"?">>, <<"&">>, <<"a">>, <<" ">> }

Url_watch_a == Str_watch_v \o <<"a">>

SomeHeaders ==
    { None,
      <<"B","a","s","i","c">> \o <<" ">> \o API_KEY,
      <<"B","e","a","r","e","r">> \o <<" ">> \o API_KEY }
AllHeaders == {None} \cup Concats(HdrFragments, MaxHdrPieces)

SomeUrls == { None, <<"x">>, Url_watch_a }
AuthUrls == SomeUrls \cup { <<>> }
AllUrls == {None} \cup Concats(UrlFragments, MaxUrlPieces)

Langs == {"en", "es", "de", "ja", "ko"}
AllTracks == {Track(l, g) : l \in Langs, g \in BOOLEAN}

(* the listings of at most n tracks, one track per language and kind *)
TrackLists(n) ==
    { ts \in UNION {[1..k -> AllTracks] : k \in 0..n} :
        \A i, j \in 1..Len(ts) : i # j => ts[i] # ts[j] }

Text_Hello == <<"H","e","l","l","o">>
Text_world == <<"w","o","r","l","d">>

PartValues ==
    { [text |-> Text_Hello], [text |-> Text_world], [text |-> <<>>], [start |-> 0] }
PartLists(n) == UNION {[1..k -> PartValues] : k \in 0..n}

TranscriptsDisabled == Exc("TranscriptsDisabled", "Subtitles are disabled for this video")
JSONDecodeError == Exc("JSONDecodeError", "Expecting value: line 1 column 1 (char 0)")
RequestBlocked == Exc("RequestBlocked", "YouTube is blocking requests from your IP")

SomeListings ==
    { Raise(TranscriptsDisabled), Ok(<<>>), Ok(<<Track("es", FALSE)>>) }
AllListings ==
    {Ok(ts) : ts \in TrackLists(MaxTracks)}
        \cup {Raise(TranscriptsDisabled), Raise(JSONDecodeError)}

SomeFetches ==
    { Raise(RequestBlocked), Ok(<<[text |-> Text_Hello], [text |-> Text_world]>>) }
AllFetches ==
    {Ok(ps) : ps \in PartLists(MaxParts)} \cup {Raise(RequestBlocked)}

---------------------------------------------------------------------------
(* Specifications *)

Step(rs, headers, urls, listings, fetches) ==
    \E r \in rs :
        \/ Accept(r, headers, urls)
        \/ decorated_function(r)
        \/ get_transcript(r)
        \/ get_best_transcript(r)
        \/ worker_start(r)
        \/ backend_returns(r, "list", listings)
        \/ backend_returns(r, "fetch", fetches)
        \/ resume_with_list(r)
        \/ resume_with_parts(r)

(* concurrent requests *)
Next == Step(Reqs, SomeHeaders, SomeUrls, SomeListings, SomeFetches)
Spec == Init /\ [][Next]_vars

(* one request, every Authorization header *)
NextAuth == Step({1}, AllHeaders, AuthUrls, SomeListings, SomeFetches)
SpecAuth == Init /\ [][NextAuth]_vars

(* one request, every url *)
NextUrl == Step({1}, SomeHeaders, AllUrls, SomeListings, SomeFetches)
SpecUrl == Init /\ [][NextUrl]_vars

(* one request, every listing of the backend *)
NextResolve == Step({1}, SomeHeaders, SomeUrls, AllListings, SomeFetches)
SpecResolve == Init /\ [][NextResolve]_vars

(* one request, every fetch result of the backend *)
NextFetch == Step({1}, SomeHeaders, SomeUrls, SomeListings, AllFetches)
SpecFetch == Init /\ [][NextFetch]_vars

(* The event loop runs every ready coroutine and the pool starts every     *)
(* queued call; the backend answers every request but HungReq, whose calls *)
(* may stay outstanding for ever.                                          *)
HungReq == CHOOSE r \in Reqs : \A q \in Reqs : r <= q

(* the steps of request r that the server takes by itself *)
ServerStep(r) ==
    \/ decorated_function(r)
    \/ get_transcript(r)
    \/ get_best_transcript(r)
    \/ worker_start(r)
    \/ resume_with_list(r)
    \/ resume_with_parts(r)

(* the steps of request r that the client and the backend take *)
EnvironmentStep(r) ==
    \/ Accept(r, SomeHeaders, SomeUrls)
    \/ backend_returns(r, "list", SomeListings)
    \/ backend_returns(r, "fetch", SomeFetches)

Fairness ==
    /\ \A r \in Reqs : WF_vars(ServerStep(r))
    /\ \A r \in Reqs \ {HungReq} : WF_vars(EnvironmentStep(r))

FairSpec == Spec /\ Fairness

---------------------------------------------------------------------------
(* Properties *)

Arrived(r) == pc[r] # "idle"
Done(r) == pc[r] = "done"

(* h is '<scheme> <token>' between optional whitespace, the scheme being   *)
(* bearer in any case and the token the configured key                     *)
ValidAuthorization(h) ==
    /\ h # None
    /\ \E a, c \in 1..Len(h) :
         LET b == a + Len(Str_bearer) - 1
             d == c + Len(API_KEY) - 1
         IN  /\ b + 1 < c
             /\ d <= Len(h)
             /\ \A i \in 1..(a - 1) : IsSpace(h[i])
             /\ Lower(SubSeq(h, a, b)) = Str_bearer
             /\ \A i \in (b + 1)..(c - 1) : IsSpace(h[i])
             /\ SubSeq(h, c, d) = API_KEY
             /\ \A i \in (d + 1)..Len(h) : IsSpace(h[i])

(* C1: a request whose Authorization header is missing, empty, not of the  *)
(* form '<scheme> <token>', of another scheme than bearer or of another    *)
(* token than API_KEY is answered 401 whatever its url is: get_transcript  *)
(* is not entered and the backend is not contacted for it.                 *)
C1_Unauthorized401 ==
    \A r \in Reqs :
        (Arrived(r) /\ ~ValidAuthorization(hdr[r])) =>
            /\ pc[r] \in {"ready", "done"}
            /\ Done(r) => resp[r].status = 401
            /\ vid[r] = None
            /\ job[r] = NoJob
            /\ backendLog[r] = <<>>

(* a bearer header with a wrong token and a valid url, answered 401 *)
C1_Witness ==
    \E r \in Reqs :
        /\ Done(r)
        /\ resp[r].status = 401
        /\ hdr[r] = <<"B","e","a","r","e","r"," ","k">>
        /\ url[r] = Url_watch_a


(* the backend answered a fetch of r with the parts *)
Fetched(r) ==
    \E i \in 1..Len(backendLog[r]) :
        /\ backendLog[r][i].call.op = "fetch"
        /\ backendLog[r][i].result # Pending
        /\ backendLog[r][i].result.ok

(* the video id of r was extracted and its resolution failed: the request  *)
(* ended without a fetched transcript                                      *)
ResolutionFailed(r) == Done(r) /\ vid[r] # None /\ ~Fetched(r)

(* C2: once the video id is extracted, every failure of the resolution     *)
(* (no track, or list, translate or fetch raising an error of any kind) is *)
(* answered 500 with the error's message, never 400 or 200.                *)
C2_ResolutionFailureIs500 ==
    \A r \in Reqs :
        ResolutionFailed(r) => (resp[r].status = 500 /\ "error" \in DOMAIN resp[r])

OccurrencesOf(s, sub) == {i \in 1..Len(s) : OccursAt(s, sub, i)}

UpTo(s, c) ==
    LET hits == {i \in 1..Len(s) : s[i] = c}
    IN  IF hits = {} THEN s
        ELSE SubSeq(s, 1, (CHOOSE i \in hits : \A j \in hits : i <= j) - 1)

(* the characters of a video id, and the id a url with one 'watch?v='     *)
(* carries: what follows the marker, up to the first '&'                   *)
IdChars ==
    { "a","b","c","d","e","f","g","h","i","j","k","l","m","n","o","p","q","r",
      "s","t","u","v","w","x","y","z","0","1","2","3","4","5","6","7","8","9",
      "-","_" }

IsId(s) == s # <<>> /\ \A i \in 1..Len(s) : s[i] \in IdChars

WatchId(u) ==
    LET s == Strip(u)
        i == CHOOSE k \in OccurrencesOf(s, Str_watch_v) : TRUE
    IN  UpTo(From(s, i + Len(Str_watch_v)), "&")

(* u is <anything>watch?v=ID or <anything>watch?v=ID&<parameters> *)
IsWatchUrl(u) ==
    /\ u # None
    /\ Cardinality(OccurrencesOf(Strip(u), Str_watch_v)) = 1
    /\ IsId(WatchId(u))

(* C3: for a url <anything>watch?v=ID[&...] the extracted id is ID, the    *)
(* text after 'watch?v=' up to the first '&', whatever precedes the marker *)
(* and whatever parameters follow.                                         *)
C3_WatchUrlGivesId ==
    \A r \in Reqs :
        (IsWatchUrl(url[r]) /\ pc[r] \notin {"idle", "ready", "get_transcript"}
            /\ AuthCheck(hdr[r]) = "ok")
        => vid[r] = WatchId(url[r])

Str_https_youtu_be == <<"h","t","t","p","s",":","/","/">> \o Str_youtu_be \o <<"/">>

(* u is https://youtu.be/ID or https://youtu.be/ID?query, ID a path segment *)
ShortLinkId(u) == UpTo(From(Strip(u), Len(Str_https_youtu_be) + 1), "?")

IsShortLink(u) ==
    /\ u # None
    /\ OccursAt(Strip(u), Str_https_youtu_be, 1)
    /\ IsId(ShortLinkId(u))

(* C4: for a url https://youtu.be/ID[?query] the extracted id is ID, the   *)
(* path segment truncated at the first '?', whatever the query is.         *)
C4_ShortLinkGivesId ==
    \A r \in Reqs :
        (IsShortLink(url[r]) /\ pc[r] \notin {"idle", "ready", "get_transcript"}
            /\ AuthCheck(hdr[r]) = "ok")
        => vid[r] = ShortLinkId(url[r])

(* C5: every video id get_video_id returns is a non-empty string, so that  *)
(* the backend is never asked for an empty video id.                       *)
C5_VideoIdNonEmpty ==
    \A r \in Reqs :
        /\ vid[r] # None => vid[r] # <<>>
        /\ \A i \in 1..Len(backendLog[r]) :
             backendLog[r][i].call.op = "list" => backendLog[r][i].call.video_id # <<>>


(* the listing the backend returned for r, and the transcript r fetched *)
Listed(r) ==
    /\ Len(backendLog[r]) >= 1
    /\ backendLog[r][1].call.op = "list"
    /\ backendLog[r][1].result # Pending
    /\ backendLog[r][1].result.ok

ListingOf(r) == backendLog[r][1].result.value

FetchStarted(r) == Len(backendLog[r]) >= 2 /\ backendLog[r][2].call.op = "fetch"

FetchedTranscript(r) == backendLog[r][2].call.transcript

Rank(lang) == CHOOSE i \in 1..Len(preferred_languages) : preferred_languages[i] = lang
IsPreferred(lang) == lang \in Range(preferred_languages)
IndexOf(ts, t) == CHOOSE i \in 1..Len(ts) : ts[i] = t

(* t is the track the documented priority gives for the listing ts *)
IsBestTrack(ts, t) ==
    LET manualPreferred ==
            {x \in Range(ts) : ~x.is_generated /\ IsPreferred(x.language_code)}
        generatedPreferred ==
            {x \in Range(ts) : x.is_generated /\ IsPreferred(x.language_code)}
        generated == {x \in Range(ts) : x.is_generated}
    IN  /\ t \in Range(ts)
        /\ IF manualPreferred # {}
           THEN /\ t \in manualPreferred
                /\ \A x \in manualPreferred : Rank(t.language_code) <= Rank(x.language_code)
           ELSE IF generatedPreferred # {}
           THEN /\ t \in generatedPreferred
                /\ \A x \in generatedPreferred :
                     Rank(t.language_code) <= Rank(x.language_code)
           ELSE IF generated # {}
           THEN /\ t \in generated
                /\ \A x \in generated : IndexOf(ts, t) <= IndexOf(ts, x)
           ELSE \A x \in Range(ts) : IndexOf(ts, t) <= IndexOf(ts, x)

(* C6: of a non-empty listing get_best_transcript selects (1) the manual   *)
(* track of the first language of [en, es, fr, de, ar] that has one, else  *)
(* (2) the generated track of the first such language that has one, else   *)
(* (3) the first generated track in the backend's order, else (4) the      *)
(* first manual track in the backend's order.                              *)
C6_SelectionPriority ==
    \A r \in Reqs :
        (Listed(r) /\ ListingOf(r) # <<>>) =>
            /\ FetchStarted(r) => IsBestTrack(ListingOf(r), FetchedTranscript(r).track)
            /\ (Done(r) /\ ~FetchStarted(r)) => resp[r].error = "not translatable"
            /\ pc[r] = "await_fetch" => job[r].call.op = "fetch"
                   /\ IsBestTrack(ListingOf(r), job[r].call.transcript.track)

(* a German manual track is fetched though an English generated one is listed *)
C6_Witness ==
    \E r \in Reqs :
        /\ Listed(r)
        /\ Track("en", TRUE) \in Range(ListingOf(r))
        /\ FetchStarted(r)
        /\ FetchedTranscript(r).track = Track("de", FALSE)

(* C7: the transcript that is fetched is a translation to English exactly  *)
(* when the selected track's language code is not 'en'.                    *)
C7_TranslatedIffNotEnglish ==
    \A r \in Reqs :
        FetchStarted(r) =>
            LET h == FetchedTranscript(r)
            IN  /\ h.translation \in {"none", "en"}
                /\ h.translation = "en" <=> h.track.language_code # "en"

(* the only track is Spanish manual and its English translation is fetched *)
C7_Witness ==
    \E r \in Reqs :
        /\ Listed(r)
        /\ ListingOf(r) = <<Track("es", FALSE)>>
        /\ FetchStarted(r)
        /\ FetchedTranscript(r) = translate(Handle(Track("es", FALSE)), "en")

(* the 1-based position before the text of part i in the joined transcript *)
RECURSIVE OffsetOf(_, _)
OffsetOf(texts, i) ==
    IF i = 1 THEN 0 ELSE OffsetOf(texts, i - 1) + Len(texts[i - 1]) + 1

(* s holds every text, in order, with one space between two texts and      *)
(* nothing else                                                            *)
IsSpaceJoin(s, texts) ==
    LET n == Len(texts)
    IN  /\ Len(s) = IF n = 0 THEN 0 ELSE OffsetOf(texts, n) + Len(texts[n])
        /\ \A i \in 1..n :
             SubSeq(s, OffsetOf(texts, i) + 1, OffsetOf(texts, i) + Len(texts[i]))
                 = texts[i]
        /\ \A i \in 2..n : s[OffsetOf(texts, i)] = " "

(* C8: a 200 response carries the single-space join of the text of every   *)
(* part the backend fetch returned, in the backend's order; a response is  *)
(* such a complete transcript or an error body.                            *)
C8_CompleteTranscript ==
    \A r \in Reqs :
        Done(r) =>
            IF resp[r].status = 200
            THEN /\ Fetched(r)
                 /\ LET parts == backendLog[r][2].result.value
                    IN  /\ \A i \in 1..Len(parts) : HasText(parts[i])
                        /\ IsSpaceJoin(resp[r].transcript, TextsOf(parts))
            ELSE /\ resp[r].status \in {400, 401, 500}
                 /\ DOMAIN resp[r] = {"status", "error"}

(* the parts Hello, world are answered 200 'Hello world' *)
C8_Witness ==
    \E r \in Reqs :
        /\ Done(r)
        /\ Fetched(r)
        /\ backendLog[r][2].result.value = <<[text |-> Text_Hello], [text |-> Text_world]>>
        /\ resp[r] = [status |-> 200, transcript |-> Text_Hello \o <<" ">> \o Text_world]


(* a backend call of r is outstanding: dispatched and not yet returned *)
BackendOutstanding(r) == job[r].st \in {"queued", "running"}

(* C9: while a backend call of one request is outstanding, and even if it  *)
(* never returns, the event loop is not held by that request, and every    *)
(* other request is accepted, processed and answered.                      *)
C9_LoopStaysFree ==
    /\ [](\A r \in Reqs : BackendOutstanding(r) => running # r)
    /\ \A q \in Reqs \ {HungReq} : <>Done(q)

(* the call of HungReq is outstanding in the backend while another request *)
(* that arrived meanwhile has its transcript                               *)
C9_Witness ==
    /\ job[HungReq].st = "running"
    /\ \E q \in Reqs \ {HungReq} : Done(q) /\ resp[q].status = 200

CallsOf(r, op) == {i \in 1..Len(backendLog[r]) : backendLog[r][i].call.op = op}

FailedCalls(r) ==
    {i \in 1..Len(backendLog[r]) :
        backendLog[r][i].result # Pending /\ ~backendLog[r][i].result.ok}

(* C10: no backend operation is retried: for one request the tracks are    *)
(* listed at most once and a transcript is fetched at most once; after a   *)
(* backend failure no backend operation follows and the request ends with  *)
(* the error response of that failure.                                     *)
C10_NoRetry ==
    \A r \in Reqs :
        /\ Cardinality(CallsOf(r, "list")) <= 1
        /\ Cardinality(CallsOf(r, "fetch")) <= 1
        /\ \A i \in FailedCalls(r) :
             /\ i = Len(backendLog[r])
             /\ ~BackendOutstanding(r)
             /\ \/ /\ pc[r] \in {"await_list", "await_fetch"}
                   /\ job[r].st = "done"
                   /\ job[r].result = backendLog[r][i].result
                \/ /\ Done(r)
                   /\ resp[r].status \in {400, 500}
                   /\ resp[r].error = backendLog[r][i].result.exc.msg

(* the fetch failed after a successful listing and the request ended 500 *)
C10_Witness ==
    \E r \in Reqs :
        /\ Done(r)
        /\ Len(backendLog[r]) = 2
        /\ FailedCalls(r) = {2}
        /\ resp[r].status = 500

=============================================================================
